---- MODULE Spec2Model ----
(***************************************************************************)
(* Model of the reputation ledger (contract DomainClassification), of the  *)
(* ledger client (DomainClassificationContract in                          *)
(* backend/blockchain/interact.js: write path, lookup and listing) and of  *)
(* the risk fusion engine (assess).                                        *)
(***************************************************************************)
EXTENDS Integers, Sequences, FiniteSets, TLC

(***************************************************************************)
(* Bounds of the model.                                                    *)
(***************************************************************************)
UintWidth == 4            \* width standing for Solidity's uint256
MaxTime == 2              \* block timestamps run over 1..MaxTime
MaxCooldown == 2          \* the cooldown the owner sets besides 0 and UintMax
MaxEvents == 2            \* length to which the event log may grow
MaxAttemptsBound == 3     \* maxRetries is drawn from 1..MaxAttemptsBound
MaxLimit == 2             \* the limit of a listing is drawn from 0..MaxLimit
MaxLedgerWrites == 1      \* writes accepted before the engine assesses

UintMax == 2^UintWidth - 1

(***************************************************************************)
(* Input domains.                                                          *)
(***************************************************************************)
Deployer == "owner"
ZeroAddress == "0x0"
Addrs == {Deployer, "user"}
Emails == {"", "a", "b"}
Payloads == {[isSpam |-> TRUE, reason |-> "r"], [isSpam |-> FALSE, reason |-> ""]}
CooldownValues == {0, MaxCooldown, UintMax}

(***************************************************************************)
(* Revert reasons of the contract and error messages of the client.        *)
(***************************************************************************)
Ok == "ok"
OnlyOwnerMsg == "Only owner can call this function"
CooldownMsg == "Submission cooldown active"
EmptyMsg == "Email address cannot be empty"
NotExistMsg == "Email does not exist"
PanicMsg == "Panic(0x11)"
NotInitializedMsg == "Contract not initialized. Please set CONTRACT_ADDRESS in .env"
NetworkMsg == "network error"
TxRevertedMsg == "transaction execution reverted"
MaxRetriesExceededMsg == "Max retries exceeded"
ClientMessages == {NotInitializedMsg, NetworkMsg, TxRevertedMsg, CooldownMsg,
                   EmptyMsg, PanicMsg, MaxRetriesExceededMsg}

VARIABLES
  domains,              \* mapping(string => DomainRecord)
  lastSubmissionTime,   \* mapping(address => uint256)
  owner,                \* address public owner
  submissionCooldown,   \* uint256 public submissionCooldown
  totalDomains,         \* uint256 public totalDomains
  events,               \* the event log of the contract
  blockTimestamp,       \* block.timestamp of the block being built
  lastCall,             \* the contract call executed by the latest step
  configured,           \* client: this.contract is set
  pc,                   \* client: position inside classifyDomain
  args,                 \* client: arguments of the running classifyDomain
  attempt,              \* client: loop variable attempt
  waits,                \* client: the delays performed, in ms
  calls,                \* client: number of contract.classifyDomain calls
  lastError,            \* client: message of the error last caught
  result,               \* client: value returned by classifyDomain
  listing,              \* client: value returned by listAllDomains
  reputation,           \* client: value returned by getDomainReputation
  autoReport,           \* engine: the feature flag AUTO_REPORT
  epc,                  \* engine: position inside assess
  request,              \* engine: the input of the running assess
  assessment,           \* engine: the RiskAssessment being filled
  llmCalls,             \* engine: calls of the language model in this assess
  writeBacks,           \* engine: write requests issued by this assess
  exitCode,             \* command line: process.exit of the classify command
  xpc,                  \* extension: position of the running analysis
  msg,                  \* extension: payload of the analyze_email message
  reqBody,              \* extension: body of the request sent to /analyze
  data,                 \* extension: JSON of the last /analyze response
  response,             \* extension: what the worker answers to the page
  panel,                \* extension: the overlay shown in the page
  inFlight              \* extension: feedback submissions not yet settled

ledgerVars == <<domains, lastSubmissionTime, owner, submissionCooldown,
                totalDomains, events>>
clientVars == <<configured, pc, args, attempt, waits, calls, lastError, result>>
engineVars == <<autoReport, epc, request, assessment, llmCalls, writeBacks>>
uiVars == <<exitCode, xpc, msg, reqBody, data, response, panel, inFlight>>
readVars == <<listing, reputation, engineVars, uiVars>>
vars == <<domains, lastSubmissionTime, owner, submissionCooldown, totalDomains,
          events, blockTimestamp, lastCall, configured, pc, args, attempt,
          waits, calls, lastError, result, listing, reputation, autoReport, epc,
          request, assessment, llmCalls, writeBacks, exitCode, xpc, msg,
          reqBody, data, response, panel, inFlight>>

(***************************************************************************)
(* The contract.                                                           *)
(***************************************************************************)
\* the zero value of DomainRecord: what an unwritten or deleted slot holds
DomainRecord ==
  [domain |-> "", isSpam |-> FALSE, timestamp |-> 0, reporter |-> ZeroAddress,
   reason |-> "", exists |-> FALSE]

NoCall == [fn |-> "none"]

\* checked uint256 addition of Solidity 0.8: TRUE when a + b overflows
AddOverflows(a, b) == a + b > UintMax

\* variant: the modifier is missing
onlyOwner_missing(sender) == TRUE

\* modifier onlyOwner
onlyOwner(sender) == sender = owner

\* modifier canSubmit: the require of lines 51-54
canSubmit(sender) ==
  blockTimestamp >= lastSubmissionTime[sender] + submissionCooldown

\* variant: the counter is incremented on every write
totalAfterClassify_always(isUpdate) == totalDomains + 1

\* totalDomains after a write: incremented only when the record is new
totalAfterClassify(isUpdate) ==
  IF ~isUpdate THEN totalDomains + 1 ELSE totalDomains

\* variant: every write emits DomainClassified
eventOfClassify_alwaysCreated(sender, d, isSpam, isUpdate, oldClassification) ==
  [name |-> "DomainClassified", domain |-> d, isSpam |-> isSpam,
   reporter |-> sender, timestamp |-> blockTimestamp]

\* the event of a write
eventOfClassify(sender, d, isSpam, isUpdate, oldClassification) ==
  IF ~isUpdate
    THEN [name |-> "DomainClassified", domain |-> d, isSpam |-> isSpam,
          reporter |-> sender, timestamp |-> blockTimestamp]
    ELSE [name |-> "DomainUpdated", domain |-> d,
          oldClassification |-> oldClassification,
          newClassification |-> isSpam, updater |-> sender]

\* variant: an update keeps the reporter of the first write
newRecord_keepReporter(sender, d, isSpam, reason) ==
  [domain |-> d, isSpam |-> isSpam, timestamp |-> blockTimestamp,
   reporter |-> IF domains[d].exists THEN domains[d].reporter ELSE sender,
   reason |-> reason, exists |-> TRUE]

\* the DomainRecord stored by a write (lines 79-86)
newRecord(sender, d, isSpam, reason) ==
  [domain |-> d, isSpam |-> isSpam, timestamp |-> blockTimestamp,
   reporter |-> sender, reason |-> reason, exists |-> TRUE]

\* variant: only the exists flag is cleared
deleteRecord_flagOnly(record) == [record EXCEPT !.exists = FALSE]

\* delete domains[_domain]: every field back to its zero value
deleteRecord(record) == DomainRecord

\* the outcome of classifyDomain: Ok or the reason of the revert
classifyOutcome(sender, d) ==
  IF AddOverflows(lastSubmissionTime[sender], submissionCooldown) THEN PanicMsg
  ELSE IF ~canSubmit(sender) THEN CooldownMsg
  ELSE IF ~(d # "") THEN EmptyMsg
  ELSE IF ~domains[d].exists /\ AddOverflows(totalDomains, 1) THEN PanicMsg
  ELSE Ok

\* variant: one gate for all submitters
classifyEffect_globalGate(sender, d, isSpam, reason) ==
  IF classifyOutcome(sender, d) = Ok
    THEN LET isUpdate == domains[d].exists
             oldClassification == domains[d].isSpam
         IN /\ domains' = [domains EXCEPT ![d] =
                 newRecord(sender, d, isSpam, reason)]
            /\ lastSubmissionTime' = [a \in Addrs |-> blockTimestamp]
            /\ totalDomains' = totalAfterClassify(isUpdate)
            /\ events' = Append(events,
                 eventOfClassify(sender, d, isSpam, isUpdate, oldClassification))
            /\ UNCHANGED <<owner, submissionCooldown>>
    ELSE UNCHANGED ledgerVars

\* variant: the gate is updated before the checks and not rolled back
classifyEffect_noRollback(sender, d, isSpam, reason) ==
  IF classifyOutcome(sender, d) = Ok
    THEN LET isUpdate == domains[d].exists
             oldClassification == domains[d].isSpam
         IN /\ domains' = [domains EXCEPT ![d] =
                 newRecord(sender, d, isSpam, reason)]
            /\ lastSubmissionTime' =
                 [lastSubmissionTime EXCEPT ![sender] = blockTimestamp]
            /\ totalDomains' = totalAfterClassify(isUpdate)
            /\ events' = Append(events,
                 eventOfClassify(sender, d, isSpam, isUpdate, oldClassification))
            /\ UNCHANGED <<owner, submissionCooldown>>
    ELSE /\ lastSubmissionTime' =
              [lastSubmissionTime EXCEPT ![sender] = blockTimestamp]
         /\ UNCHANGED <<domains, owner, submissionCooldown, totalDomains, events>>

\* the state change of classifyDomain; a revert rolls everything back
classifyEffect(sender, d, isSpam, reason) ==
  IF classifyOutcome(sender, d) = Ok
    THEN LET isUpdate == domains[d].exists
             oldClassification == domains[d].isSpam
         IN /\ domains' = [domains EXCEPT ![d] =
                 newRecord(sender, d, isSpam, reason)]
            /\ lastSubmissionTime' =
                 [lastSubmissionTime EXCEPT ![sender] = blockTimestamp]
            /\ totalDomains' = totalAfterClassify(isUpdate)
            /\ events' = Append(events,
                 eventOfClassify(sender, d, isSpam, isUpdate, oldClassification))
            /\ UNCHANGED <<owner, submissionCooldown>>
    ELSE UNCHANGED ledgerVars

\* the label of a classifyDomain call: an accepted call with its payload, a
\* reverted call with the reason of the revert
callOfClassify(sender, d, isSpam, reason) ==
  IF classifyOutcome(sender, d) = Ok
    THEN [fn |-> "classifyDomain", sender |-> sender, domain |-> d,
          isSpam |-> isSpam, reason |-> reason, status |-> Ok]
    ELSE [fn |-> "classifyDomain", sender |-> sender, domain |-> d,
          status |-> classifyOutcome(sender, d)]

\* room left in the event log (bound of the model)
LogHasRoom == Len(events) < MaxEvents

\* function classifyDomain, called directly by any account
classifyDomain(sender, d, isSpam, reason) ==
  /\ LogHasRoom
  /\ classifyEffect(sender, d, isSpam, reason)
  /\ lastCall' = callOfClassify(sender, d, isSpam, reason)
  /\ UNCHANGED <<blockTimestamp, clientVars, readVars>>

\* function getDomainClassification
getDomainClassification(d) ==
  LET record == domains[d]
  IN <<record.exists, record.isSpam, record.timestamp, record.reporter,
       record.reason>>

\* variant: removeDomain without the onlyOwner modifier
removeOutcome_anyone(sender, d) ==
  IF ~domains[d].exists THEN NotExistMsg
  ELSE IF totalDomains = 0 THEN PanicMsg
  ELSE Ok

\* the outcome of removeDomain
removeOutcome(sender, d) ==
  IF ~onlyOwner(sender) THEN OnlyOwnerMsg
  ELSE IF ~domains[d].exists THEN NotExistMsg
  ELSE IF totalDomains = 0 THEN PanicMsg
  ELSE Ok

\* variant: a removal leaves the counter as it is
removeDomain_keepsCount(sender, d) ==
  /\ IF removeOutcome(sender, d) = Ok
       THEN /\ domains' = [domains EXCEPT ![d] = deleteRecord(domains[d])]
            /\ UNCHANGED <<lastSubmissionTime, owner, submissionCooldown,
                           totalDomains, events>>
       ELSE UNCHANGED ledgerVars
  /\ lastCall' = [fn |-> "removeDomain", sender |-> sender, domain |-> d,
                  status |-> removeOutcome(sender, d)]
  /\ UNCHANGED <<blockTimestamp, clientVars, readVars>>

\* variant: a removal clears the gate of the remover
removeDomain_resetsGate(sender, d) ==
  /\ IF removeOutcome(sender, d) = Ok
       THEN /\ domains' = [domains EXCEPT ![d] = deleteRecord(domains[d])]
            /\ totalDomains' = totalDomains - 1
            /\ lastSubmissionTime' = [lastSubmissionTime EXCEPT ![sender] = 0]
            /\ UNCHANGED <<owner, submissionCooldown, events>>
       ELSE UNCHANGED ledgerVars
  /\ lastCall' = [fn |-> "removeDomain", sender |-> sender, domain |-> d,
                  status |-> removeOutcome(sender, d)]
  /\ UNCHANGED <<blockTimestamp, clientVars, readVars>>

\* function removeDomain
removeDomain(sender, d) ==
  /\ IF removeOutcome(sender, d) = Ok
       THEN /\ domains' = [domains EXCEPT ![d] = deleteRecord(domains[d])]
            /\ totalDomains' = totalDomains - 1
            /\ UNCHANGED <<lastSubmissionTime, owner, submissionCooldown, events>>
       ELSE UNCHANGED ledgerVars
  /\ lastCall' = [fn |-> "removeDomain", sender |-> sender, domain |-> d,
                  status |-> removeOutcome(sender, d)]
  /\ UNCHANGED <<blockTimestamp, clientVars, readVars>>

\* function updateSubmissionCooldown
updateSubmissionCooldown(sender, newCooldown) ==
  /\ IF onlyOwner(sender)
       THEN /\ submissionCooldown' = newCooldown
            /\ UNCHANGED <<domains, lastSubmissionTime, owner, totalDomains, events>>
       ELSE UNCHANGED ledgerVars
  /\ lastCall' = [fn |-> "updateSubmissionCooldown", sender |-> sender,
                  status |-> IF onlyOwner(sender) THEN Ok ELSE OnlyOwnerMsg]
  /\ UNCHANGED <<blockTimestamp, clientVars, readVars>>

\* a later block: block.timestamp grows
Tick ==
  /\ blockTimestamp < MaxTime
  /\ blockTimestamp' = blockTimestamp + 1
  /\ lastCall' = NoCall
  /\ UNCHANGED <<ledgerVars, clientVars, readVars>>

\* the state after the constructor
InitLedger ==
  /\ domains = [d \in Emails |-> DomainRecord]
  /\ lastSubmissionTime = [a \in Addrs |-> 0]
  /\ owner = Deployer
  /\ submissionCooldown = 0
  /\ totalDomains = 0
  /\ events = <<>>
  /\ blockTimestamp = 1
  /\ lastCall = NoCall

InitClientIdle ==
  /\ configured = TRUE
  /\ pc = "idle"
  /\ args = [domain |-> "", isSpam |-> FALSE, reason |-> "", maxRetries |-> 1]
  /\ attempt = 0
  /\ waits = <<>>
  /\ calls = 0
  /\ lastError = ""
  /\ result = [success |-> FALSE, error |-> ""]

\* the value null of JavaScript
Null == [null |-> TRUE]

\* the input and the RiskAssessment of an engine that runs no assess
NoRequest == [sender |-> "", forceFresh |-> FALSE]
NoAssessment ==
  [ledgerHit |-> FALSE, forcedFresh |-> FALSE,
   components |-> [content |-> 0, url |-> 0, llm |-> 0, ledger |-> 0],
   weights |-> [content |-> 0, url |-> 0, llm |-> 0, ledger |-> 0],
   finalRisk |-> 0, label |-> "", confidence |-> 0]

\* the engine runs no assess
EngineIdle ==
  /\ epc = "idle"
  /\ request = NoRequest
  /\ assessment = NoAssessment
  /\ llmCalls = 0
  /\ writeBacks = <<>>

\* the command has not exited; no analysis runs and no overlay is shown
InitUi ==
  /\ exitCode = Null
  /\ xpc = "idle"
  /\ msg = Null
  /\ reqBody = Null
  /\ data = Null
  /\ response = Null
  /\ panel = Null
  /\ inFlight = 0

\* nothing has been read from the ledger yet; AUTO_REPORT has its default
InitRead ==
  /\ listing = <<>>
  /\ reputation = Null
  /\ autoReport = TRUE
  /\ EngineIdle
  /\ InitUi

Init == InitLedger /\ InitClientIdle /\ InitRead

LedgerNext ==
  \/ \E s \in Addrs, d \in Emails, p \in Payloads :
       classifyDomain(s, d, p.isSpam, p.reason)
  \/ \E s \in Addrs, d \in Emails : removeDomain(s, d)
  \/ \E s \in Addrs, c \in CooldownValues : updateSubmissionCooldown(s, c)
  \/ Tick

Next == LedgerNext

Spec == Init /\ [][Next]_vars

(***************************************************************************)
(* The ledger client: DomainClassificationContract.classifyDomain.         *)
(***************************************************************************)
\* this.wallet: deploy.js and interact.js sign with BLOCKCHAIN_PRIVATE_KEY
Wallet == Deployer

\* error.message.includes("cooldown"): of the messages above only the
\* contract's cooldown revert reason contains the word
isCooldownError(message) == message \in {CooldownMsg}

\* variant: the backoff does not grow with the attempt
waitTime_constant(k) == 2000

\* const waitTime = 2000 * attempt
waitTime(k) == 2000 * k

\* the delay before the next retry for other errors
otherErrorDelay == 1000

\* variant: the cooldown branch is also taken on the last attempt
retriesAsCooldown_lastToo(message, k, maxRetries) ==
  isCooldownError(message) /\ k <= maxRetries

\* whether the catch block takes the cooldown branch (wait and continue)
retriesAsCooldown(message, k, maxRetries) ==
  isCooldownError(message) /\ k < maxRetries

\* variant: an error that is no cooldown rejection ends the loop at once
catch_noRetry(message) ==
  /\ lastError' = message
  /\ IF retriesAsCooldown(message, attempt, args.maxRetries)
       THEN /\ waits' = Append(waits, waitTime(attempt))
            /\ pc' = "waiting"
            /\ UNCHANGED result
       ELSE /\ result' = [success |-> FALSE, error |-> message]
            /\ pc' = "done"
            /\ UNCHANGED waits
  /\ UNCHANGED <<configured, args, attempt>>

\* the catch block of the retry loop, entered with error.message = message
catch(message) ==
  /\ lastError' = message
  /\ IF retriesAsCooldown(message, attempt, args.maxRetries)
       THEN /\ waits' = Append(waits, waitTime(attempt))
            /\ pc' = "waiting"
            /\ UNCHANGED result
       ELSE IF attempt = args.maxRetries
         THEN /\ result' = [success |-> FALSE, error |-> message]
              /\ pc' = "done"
              /\ UNCHANGED waits
         ELSE /\ waits' = Append(waits, otherErrorDelay)
              /\ pc' = "waiting"
              /\ UNCHANGED result
  /\ UNCHANGED <<configured, args, attempt>>

\* a call of classifyDomain(domain, isSpam, reason, maxRetries) starts; the
\* event log keeps room for one write per attempt (bound of the model)
ClientStart(d, isSpam, reason, maxRetries) ==
  /\ pc \in {"idle", "done"}
  /\ Len(events) + maxRetries <= MaxAttemptsBound
  /\ args' = [domain |-> d, isSpam |-> isSpam, reason |-> reason,
              maxRetries |-> maxRetries]
  /\ attempt' = 1
  /\ waits' = <<>>
  /\ calls' = 0
  /\ lastError' = ""
  /\ result' = [success |-> FALSE, error |-> ""]
  /\ pc' = "attempt"
  /\ lastCall' = NoCall
  /\ UNCHANGED <<ledgerVars, blockTimestamp, configured, readVars>>

\* variant: success is returned once the transaction is submitted, without
\* waiting for its confirmation
ClientSend_noWait ==
  /\ pc = "attempt"
  /\ lastCall' = NoCall
  /\ UNCHANGED <<ledgerVars, blockTimestamp, readVars>>
  /\ IF ~configured
       THEN /\ catch(NotInitializedMsg)
            /\ UNCHANGED calls
       ELSE /\ calls' = calls + 1
            /\ IF classifyOutcome(Wallet, args.domain) = Ok
                 THEN /\ pc' = "done"
                      /\ result' = [success |-> TRUE, error |-> ""]
                      /\ UNCHANGED <<configured, args, attempt, waits,
                                     lastError>>
                 ELSE catch(classifyOutcome(Wallet, args.domain))

\* the try block up to the return of this.contract.classifyDomain: without
\* this.contract it throws; otherwise the call is simulated by the node
\* (gas estimation) and a revert of the simulation is thrown with its reason
ClientSend ==
  /\ pc = "attempt"
  /\ lastCall' = NoCall
  /\ UNCHANGED <<ledgerVars, blockTimestamp, readVars>>
  /\ IF ~configured
       THEN /\ catch(NotInitializedMsg)
            /\ UNCHANGED calls
       ELSE /\ calls' = calls + 1
            /\ IF classifyOutcome(Wallet, args.domain) = Ok
                 THEN /\ pc' = "pending"
                      /\ UNCHANGED <<configured, args, attempt, waits,
                                     lastError, result>>
                 ELSE catch(classifyOutcome(Wallet, args.domain))

\* this.contract.classifyDomain fails before anything is sent
ClientSendFails ==
  /\ pc = "attempt"
  /\ configured
  /\ calls' = calls + 1
  /\ catch(NetworkMsg)
  /\ lastCall' = NoCall
  /\ UNCHANGED <<ledgerVars, blockTimestamp, readVars>>

\* the submitted transaction is executed and tx.wait() returns the receipt,
\* or throws because the execution reverted
ClientMined ==
  /\ pc = "pending"
  /\ classifyEffect(Wallet, args.domain, args.isSpam, args.reason)
  /\ lastCall' = callOfClassify(Wallet, args.domain, args.isSpam, args.reason)
  /\ IF classifyOutcome(Wallet, args.domain) = Ok
       THEN /\ result' = [success |-> TRUE, error |-> ""]
            /\ pc' = "done"
            /\ UNCHANGED <<configured, args, attempt, waits, lastError>>
       ELSE catch(TxRevertedMsg)
  /\ UNCHANGED <<blockTimestamp, calls, readVars>>

\* the submitted transaction is executed but tx.wait() throws (the
\* connection fails while the client waits for the receipt)
ClientMinedWaitFails ==
  /\ pc = "pending"
  /\ classifyEffect(Wallet, args.domain, args.isSpam, args.reason)
  /\ lastCall' = callOfClassify(Wallet, args.domain, args.isSpam, args.reason)
  /\ catch(NetworkMsg)
  /\ UNCHANGED <<blockTimestamp, calls, readVars>>

\* await delay(...) is over: attempt++ and the loop condition; past the
\* loop the function returns "Max retries exceeded"
ClientDelayDone ==
  /\ pc = "waiting"
  /\ attempt' = attempt + 1
  /\ lastError' = ""
  /\ IF attempt + 1 <= args.maxRetries
       THEN /\ pc' = "attempt"
            /\ UNCHANGED result
       ELSE /\ pc' = "done"
            /\ result' = [success |-> FALSE, error |-> MaxRetriesExceededMsg]
  /\ lastCall' = NoCall
  /\ UNCHANGED <<ledgerVars, blockTimestamp, configured, args, waits, calls,
                 readVars>>

\* the constructor of the client returns early without CONTRACT_ADDRESS
InitClient ==
  /\ configured \in BOOLEAN
  /\ pc = "idle"
  /\ args = [domain |-> "", isSpam |-> FALSE, reason |-> "", maxRetries |-> 1]
  /\ attempt = 0
  /\ waits = <<>>
  /\ calls = 0
  /\ lastError = ""
  /\ result = [success |-> FALSE, error |-> ""]

ClientInit == InitLedger /\ InitClient /\ InitRead

ClientStep ==
  \/ \E d \in Emails, p \in Payloads, m \in 1..MaxAttemptsBound :
       ClientStart(d, p.isSpam, p.reason, m)
  \/ ClientSend
  \/ ClientSendFails
  \/ ClientMined
  \/ ClientMinedWaitFails
  \/ ClientDelayDone

ClientNext ==
  \/ ClientStep
  \/ \E c \in CooldownValues : updateSubmissionCooldown(Deployer, c)
  \/ Tick

ClientSpec == ClientInit /\ [][ClientNext]_vars

\* the event loop runs every continuation of the client that is ready
ClientFairSpec == ClientSpec /\ WF_vars(ClientStep)

(***************************************************************************)
(* Properties of the ledger, checked under Spec.                           *)
(***************************************************************************)
\* the step executes classifyDomain for identifier i and the call is accepted
AcceptedClassify(i) ==
  /\ lastCall'.fn = "classifyDomain"
  /\ lastCall'.status = Ok
  /\ lastCall'.domain = i

\* the step executes removeDomain for identifier i and the call is accepted
AcceptedRemove(i) ==
  /\ lastCall'.fn = "removeDomain"
  /\ lastCall'.status = Ok
  /\ lastCall'.domain = i

\* some write of identifier i was accepted earlier (the log records each one)
everClassified(i) == \E k \in 1..Len(events) : events[k].domain = i

\* the record of identifier i after the accepted write the step executes
Overwritten(i) ==
  domains'[i] = [domain |-> i, isSpam |-> lastCall'.isSpam,
                 timestamp |-> blockTimestamp', reporter |-> lastCall'.sender,
                 reason |-> lastCall'.reason, exists |-> TRUE]

\* C1 as stated: the first accepted classify of an identifier adds 1 to
\* totalDomains, every later accepted classify of it leaves totalDomains
\* unchanged and overwrites the record
C1_Original ==
  [][\A i \in Emails : AcceptedClassify(i) =>
       /\ Overwritten(i)
       /\ IF ~everClassified(i)
            THEN totalDomains' = totalDomains + 1
            ELSE totalDomains' = totalDomains]_vars

\* C1 amended: an accepted classify of an identifier without a live record
\* (never written, or removed since its last write) adds exactly 1 to
\* totalDomains; an accepted classify of an identifier with a live record
\* leaves totalDomains unchanged; both overwrite the record
C1_Amended ==
  [][\A i \in Emails : AcceptedClassify(i) =>
       /\ Overwritten(i)
       /\ IF ~domains[i].exists
            THEN totalDomains' = totalDomains + 1
            ELSE totalDomains' = totalDomains]_vars

\* a second accepted write of an identifier with a live record has happened
C1_Witness ==
  /\ lastCall.fn = "classifyDomain"
  /\ lastCall.status = Ok
  /\ Len(events) = 2
  /\ events[2].name = "DomainUpdated"
  /\ totalDomains = 1

\* C2: once a submitter has an accepted classify at time t and the cooldown
\* is positive, every classify of that submitter at a time before
\* t + submissionCooldown is rejected with the cooldown reason, whatever
\* identifier it targets
C2_CooldownRejects ==
  [][\A s \in Addrs :
       ( /\ lastCall'.fn = "classifyDomain"
         /\ lastCall'.sender = s
         /\ lastSubmissionTime[s] > 0
         /\ submissionCooldown > 0
         /\ blockTimestamp < lastSubmissionTime[s] + submissionCooldown )
       => lastCall'.status = CooldownMsg]_vars

\* C3: a classify rejected for an empty identifier or for an active cooldown
\* changes no record, counter, gate or cooldown and emits no event
C3_RejectedChangesNothing ==
  [][( /\ lastCall'.fn = "classifyDomain"
       /\ lastCall'.status \in {EmptyMsg, CooldownMsg} )
     => UNCHANGED <<domains, totalDomains, lastSubmissionTime,
                    submissionCooldown, events>>]_vars

\* a classify was rejected in a ledger that holds records
C3_Witness ==
  /\ lastCall.fn = "classifyDomain"
  /\ lastCall.status \in {EmptyMsg, CooldownMsg}
  /\ totalDomains > 0
  /\ \E a \in Addrs : lastSubmissionTime[a] > 0

\* C4: an accepted classify(i, c, r) by s at time t makes query(i) return
\* (true, c, t, s, r), and that answer stays until the next accepted classify
\* or removal of i; a live record is the one stored under its own identifier
C4_LatestWriteWins ==
  [][\A i \in Emails :
       /\ AcceptedClassify(i) =>
            getDomainClassification(i)' =
              <<TRUE, lastCall'.isSpam, blockTimestamp', lastCall'.sender,
                lastCall'.reason>>
       /\ (~AcceptedClassify(i) /\ ~AcceptedRemove(i)) =>
            getDomainClassification(i)' = getDomainClassification(i)
       /\ domains'[i].exists => domains'[i].domain = i]_vars

\* an identifier first written by one account was rewritten by another
C4_Witness ==
  /\ lastCall.fn = "classifyDomain"
  /\ lastCall.status = Ok
  /\ Len(events) = 2
  /\ events[1].name = "DomainClassified"
  /\ events[2].name = "DomainUpdated"
  /\ events[1].domain = events[2].domain
  /\ events[1].reporter # events[2].updater
  /\ events[1].isSpam # events[2].newClassification

\* C5: removeDomain(i) by the owner on a live record takes 1 from
\* totalDomains and erases the record, so that query(i) returns the zero
\* tuple with exists = false; on an identifier without record it fails and
\* changes nothing
C5_Remove ==
  [][\A i \in Emails :
       ( /\ lastCall'.fn = "removeDomain"
         /\ lastCall'.domain = i
         /\ lastCall'.sender = owner )
       => IF domains[i].exists
            THEN /\ lastCall'.status = Ok
                 /\ totalDomains' = totalDomains - 1
                 /\ getDomainClassification(i)' =
                      <<FALSE, FALSE, 0, ZeroAddress, "">>
            ELSE /\ lastCall'.status = NotExistMsg
                 /\ UNCHANGED ledgerVars]_vars

\* the owner removed a live record
C5_Witness ==
  /\ lastCall.fn = "removeDomain"
  /\ lastCall.status = Ok
  /\ Len(events) > 0
  /\ ~domains[lastCall.domain].exists

\* C6: removeDomain and updateSubmissionCooldown called by another account
\* than the owner are rejected and leave the cooldown, the records and the
\* counter unchanged; the owner is the deployer for ever
C6_OwnerOnly ==
  [][/\ ( /\ lastCall'.fn \in {"removeDomain", "updateSubmissionCooldown"}
          /\ lastCall'.sender # owner )
        => /\ lastCall'.status = OnlyOwnerMsg
           /\ UNCHANGED <<submissionCooldown, domains, totalDomains>>
     /\ owner' = owner
     /\ owner = Deployer]_vars

\* another account than the owner tried to remove a live record
C6_Witness ==
  /\ lastCall.fn = "removeDomain"
  /\ lastCall.sender # owner
  /\ lastCall.status = OnlyOwnerMsg
  /\ domains[lastCall.domain].exists

\* C7: exists of an identifier turns true only in an accepted classify of
\* that identifier and turns false only in an accepted removeDomain of that
\* identifier called by the owner
C7_ExistsStateMachine ==
  [][\A i \in Emails :
       /\ (~domains[i].exists /\ domains'[i].exists) => AcceptedClassify(i)
       /\ (domains[i].exists /\ ~domains'[i].exists) =>
            (AcceptedRemove(i) /\ lastCall'.sender = owner)]_vars

\* an identifier was classified, removed and classified again
C7_Witness ==
  /\ Len(events) = 2
  /\ events[1].name = "DomainClassified"
  /\ events[2].name = "DomainClassified"
  /\ events[1].domain = events[2].domain
  /\ domains[events[2].domain].exists

(***************************************************************************)
(* Properties of the client's retry loop, checked under ClientSpec and     *)
(* ClientFairSpec.                                                         *)
(***************************************************************************)
\* the step ends an attempt in the catch block
Caught == pc \in {"attempt", "pending"} /\ lastError' # ""

RECURSIVE SumSeq(_)
SumSeq(q) == IF q = <<>> THEN 0 ELSE Head(q) + SumSeq(Tail(q))

\* the sum of attempt * 2000 for attempt in 1..n
RECURSIVE BackoffSum(_)
BackoffSum(n) == IF n <= 0 THEN 0 ELSE 2000 * n + BackoffSum(n - 1)

\* C8 as stated: an attempt that fails with another error than a cooldown
\* rejection is not retried; the client returns that failure at once,
\* whatever the attempt number
C8_Original ==
  [][(Caught /\ ~isCooldownError(lastError')) =>
       /\ pc' = "done"
       /\ result' = [success |-> FALSE, error |-> lastError']]_vars

\* C8 amended: an attempt that fails with another error than a cooldown
\* rejection is returned at once only when it is the last attempt; on an
\* earlier attempt the client waits a fixed 1000 ms and goes on to the
\* next attempt
C8_Amended ==
  [][/\ (Caught /\ ~isCooldownError(lastError')) =>
          IF attempt = args.maxRetries
            THEN /\ pc' = "done"
                 /\ result' = [success |-> FALSE, error |-> lastError']
                 /\ waits' = waits
            ELSE /\ pc' = "waiting"
                 /\ waits' = Append(waits, 1000)
                 /\ attempt' = attempt
     /\ (pc = "waiting" /\ pc' # "waiting") =>
          (pc' = "attempt" /\ attempt' = attempt + 1)]_vars

\* the client waits after an error that is no cooldown rejection
C8_Witness ==
  /\ pc = "waiting"
  /\ lastError \in {NetworkMsg, NotInitializedMsg, EmptyMsg, TxRevertedMsg}
  /\ attempt < args.maxRetries
  /\ waits[Len(waits)] = 1000

C10_Bounded ==
  /\ []( pc # "idle" =>
           /\ attempt \in 1..args.maxRetries
           /\ calls <= attempt
           /\ Len(waits) <= args.maxRetries - 1
           /\ SumSeq(waits) <= BackoffSum(args.maxRetries - 1)
           /\ pc = "done" =>
                \/ result = [success |-> TRUE, error |-> ""]
                \/ /\ ~result.success
                   /\ result.error \in ClientMessages \ {MaxRetriesExceededMsg} )
  /\ (pc \in {"attempt", "pending", "waiting"}) ~> (pc = "done")

\* a call has used every attempt and every wait and has ended
C10_Witness ==
  /\ pc = "done"
  /\ ~result.success
  /\ args.maxRetries = MaxAttemptsBound
  /\ attempt = args.maxRetries
  /\ calls = args.maxRetries
  /\ SumSeq(waits) = BackoffSum(args.maxRetries - 1)

(***************************************************************************)
(* Validation of the identifier by the client, checked under ClientSpec.   *)
(***************************************************************************)
\* C11: a submitClassification with an empty identifier is rejected by the
\* client itself: it makes no call of the contract's classifyDomain, puts no
\* transaction in flight and waits for no retry
C11_EmptyRejectedLocally ==
  (pc # "idle" /\ configured /\ args.domain = "") =>
     /\ calls = 0
     /\ pc # "pending"
     /\ waits = <<>>

(***************************************************************************)
(* The listing of the client (listAllDomains), replayed from the event     *)
(* log.  A block is numbered by its timestamp: later blocks carry later    *)
(* timestamps, and the calls made at one timestamp share a block.  A       *)
(* transaction is named by the position of its event in the log.           *)
(***************************************************************************)
\* String.prototype.toLowerCase on the identifiers of the model
toLowerCase(s) ==
  CASE s = "A" -> "a"
    [] s = "B" -> "b"
    [] OTHER -> s

\* event.blockNumber
blockNumber(event) == event.timestamp

\* domainMap.has(key); the Map is the sequence of its values in insertion
\* order, the key of a value being the lower-cased identifier
mapHas(m, key) == \E k \in 1..Len(m) : toLowerCase(m[k].domain) = key

\* domainMap.get(key)
mapGet(m, key) == m[CHOOSE k \in 1..Len(m) : toLowerCase(m[k].domain) = key]

\* domainMap.set(key, value): a key already present keeps its position
mapSet(m, key, value) ==
  IF mapHas(m, key)
    THEN [k \in 1..Len(m) |->
            IF toLowerCase(m[k].domain) = key THEN value ELSE m[k]]
    ELSE Append(m, value)

\* the filter of line 312: the events named DomainClassified
isListed(event) == event.name = "DomainClassified"

\* the loop of lines 326-360 over the first n events of the log; undecoded
\* holds the transactions that provider.getTransaction does not return
RECURSIVE domainMap(_, _, _)
domainMap(log, n, undecoded) ==
  IF n = 0 THEN <<>>
  ELSE LET m == domainMap(log, n - 1, undecoded)
           event == log[n]
           domainKey == toLowerCase(event.domain)
       IN  IF ~isListed(event) \/ n \in undecoded THEN m
           ELSE IF \/ ~mapHas(m, domainKey)
                   \/ mapGet(m, domainKey).blockNumber < blockNumber(event)
                  THEN mapSet(m, domainKey,
                              [domain |-> event.domain, isSpam |-> event.isSpam,
                               reporter |-> event.reporter,
                               timestamp |-> event.timestamp,
                               blockNumber |-> blockNumber(event),
                               txHash |-> n])
                  ELSE m

\* .sort((a, b) => b.timestamp - a.timestamp): a stable sort, so each value
\* goes behind the values that are at least as new and came before it
RECURSIVE sortNewestFirst(_)
sortNewestFirst(s) ==
  IF s = <<>> THEN <<>>
  ELSE LET r == sortNewestFirst(SubSeq(s, 1, Len(s) - 1))
           e == s[Len(s)]
           p == Cardinality({k \in 1..Len(r) : r[k].timestamp >= e.timestamp})
       IN  SubSeq(r, 1, p) \o <<e>> \o SubSeq(r, p + 1, Len(r))

\* variant: the limit is ignored
slice_all(s, end) == s

\* .slice(0, end): a negative end counts from the end of the array
slice(s, end) ==
  LET last == IF end < 0
                THEN (IF Len(s) + end > 0 THEN Len(s) + end ELSE 0)
                ELSE (IF end < Len(s) THEN end ELSE Len(s))
  IN  SubSeq(s, 1, last)

\* the value listAllDomains(limit) returns when no call of it throws
listAllDomains(log, limit, undecoded) ==
  IF \A n \in 1..Len(log) : ~isListed(log[n])
    THEN <<>>
    ELSE slice(sortNewestFirst(domainMap(log, Len(log), undecoded)), limit)

\* the sets of transactions that one listing may fail to fetch: none, or one
\* of those whose event the filter selects
Undecoded(log) == {{}} \cup {{n} : n \in {k \in 1..Len(log) : isListed(log[k])}}

\* node interact.js list [limit]: the listing is computed and printed
ListAll(limit, undecoded) ==
  /\ lastCall.fn # "listAllDomains"
  /\ configured
  /\ listing' = listAllDomains(events, limit, undecoded)
  /\ lastCall' = [fn |-> "listAllDomains", limit |-> limit, status |-> Ok]
  /\ UNCHANGED <<ledgerVars, blockTimestamp, clientVars, uiVars, reputation, engineVars>>

\* the catch of lines 403-406: queryFilter throws and the listing is empty
ListAllFails ==
  /\ lastCall.fn # "listAllDomains"
  /\ listing' = <<>>
  /\ lastCall' = [fn |-> "listAllDomains", status |-> NetworkMsg]
  /\ UNCHANGED <<ledgerVars, blockTimestamp, clientVars, uiVars, reputation, engineVars>>

\* the process that printed the listing exits
ListExit ==
  /\ lastCall.fn = "listAllDomains"
  /\ listing' = <<>>
  /\ lastCall' = NoCall
  /\ UNCHANGED <<ledgerVars, blockTimestamp, clientVars, uiVars, reputation, engineVars>>

\* a call the ledger accepts, or a later block, while no listing is being
\* printed (a rejected call leaves the log as it is)
ListLedgerStep ==
  /\ lastCall.fn # "listAllDomains"
  /\ \/ \E s \in Addrs, d \in Emails, p \in Payloads :
          /\ classifyOutcome(s, d) = Ok
          /\ classifyDomain(s, d, p.isSpam, p.reason)
     \/ \E d \in Emails :
          /\ removeOutcome(Deployer, d) = Ok
          /\ removeDomain(Deployer, d)
     \/ Tick

ListNext ==
  \/ ListLedgerStep
  \/ \E limit \in 0..MaxLimit, undecoded \in Undecoded(events) :
       ListAll(limit, undecoded)
  \/ ListAllFails
  \/ ListExit

ListSpec == Init /\ [][ListNext]_vars

\* the step returns a listing computed from the log
Listed == lastCall'.fn = "listAllDomains" /\ lastCall'.status = Ok

\* the last event of the log that a write of identifier i emitted
lastWrite(log, i) ==
  log[CHOOSE n \in 1..Len(log) :
        /\ log[n].domain = i
        /\ \A k \in (n + 1)..Len(log) : log[k].domain # i]

\* C12: every entry of a listing shows the classification and the submitter
\* of the latest accepted write of its identifier, and for an identifier
\* with a live record also the timestamp of that write
C12_ListsLatestWrite ==
  [][Listed =>
       \A k \in 1..Len(listing') :
         LET entry == listing'[k]
             write == lastWrite(events', entry.domain)
         IN  /\ entry.isSpam = (IF write.name = "DomainClassified"
                                  THEN write.isSpam
                                  ELSE write.newClassification)
             /\ entry.reporter = (IF write.name = "DomainClassified"
                                    THEN write.reporter
                                    ELSE write.updater)
             /\ domains'[entry.domain].exists =>
                  entry.timestamp = domains'[entry.domain].timestamp]_vars

\* timestamps never increase along a listing
newestFirst(s) == \A k \in 1..(Len(s) - 1) : s[k].timestamp >= s[k + 1].timestamp

\* C13: a listing for a limit has at most limit entries, no two entries for
\* one identifier, and non-increasing timestamps; the entries cut off by the
\* limit are none newer (by the timestamp listed) than any entry kept, and
\* nothing is cut off while the limit is not reached
C13_BoundedDedupedNewestFirst ==
  [][Listed =>
       \E undecoded \in Undecoded(events') :
         LET limit == lastCall'.limit
             all == domainMap(events', Len(events'), undecoded)
         IN  /\ Len(listing') <= limit
             /\ \A j, k \in 1..Len(listing') :
                  listing'[j].domain = listing'[k].domain => j = k
             /\ newestFirst(listing')
             /\ \A k \in 1..Len(listing') :
                  \E j \in 1..Len(all) : all[j] = listing'[k]
             /\ \A j \in 1..Len(all) :
                  \/ \E k \in 1..Len(listing') : listing'[k] = all[j]
                  \/ /\ Len(listing') = limit
                     /\ \A k \in 1..Len(listing') :
                          listing'[k].timestamp >= all[j].timestamp]_vars

\* two identifiers are on the ledger, written at different times, and the
\* listing for limit 1 shows the newer one only
C13_Witness ==
  /\ lastCall.fn = "listAllDomains"
  /\ lastCall.status = Ok
  /\ lastCall.limit = 1
  /\ Len(listing) = 1
  /\ \E i \in Emails :
       /\ i # listing[1].domain
       /\ domains[i].exists
       /\ domains[i].timestamp < listing[1].timestamp
       /\ \E n \in 1..Len(events) : isListed(events[n]) /\ events[n].domain = i

(***************************************************************************)
(* The lookup of the client (getDomainClassification, getDomainReputation).*)
(***************************************************************************)
\* getDomainClassification of the client: the contract's answer as an
\* object, or null when this.contract is missing or the call throws
queryClassification(d, throws) ==
  IF ~configured \/ throws
    THEN Null
    ELSE LET r == getDomainClassification(d)
         IN  [exists |-> r[1], isSpam |-> r[2], timestamp |-> r[3],
              reporter |-> r[4], reason |-> r[5]]

\* the object returned for an identifier without a record or a failed query
UnknownReputation ==
  [exists |-> FALSE, reputation_score |-> 50, consensus |-> "unknown",
   spam_votes |-> 0, ham_votes |-> 0, total_reports |-> 0]

\* variant: an identifier without a record gets the object of the catch
reputationOf_bare(classification) ==
  IF classification # Null /\ classification.exists
    THEN [exists |-> TRUE,
          reputation_score |-> IF classification.isSpam THEN 10 ELSE 90,
          consensus |-> IF classification.isSpam THEN "spam" ELSE "ham",
          spam_votes |-> IF classification.isSpam THEN 1 ELSE 0,
          ham_votes |-> IF classification.isSpam THEN 0 ELSE 1,
          total_reports |-> 1,
          timestamp |-> classification.timestamp,
          reporter |-> classification.reporter,
          reason |-> classification.reason]
    ELSE [exists |-> FALSE]

\* the if of lines 275-296 of getDomainReputation
reputationOf(classification) ==
  IF classification # Null /\ classification.exists
    THEN [exists |-> TRUE,
          reputation_score |-> IF classification.isSpam THEN 10 ELSE 90,
          consensus |-> IF classification.isSpam THEN "spam" ELSE "ham",
          spam_votes |-> IF classification.isSpam THEN 1 ELSE 0,
          ham_votes |-> IF classification.isSpam THEN 0 ELSE 1,
          total_reports |-> 1,
          timestamp |-> classification.timestamp,
          reporter |-> classification.reporter,
          reason |-> classification.reason]
    ELSE UnknownReputation

\* getDomainReputation(domain)
getDomainReputation(d, throws) == reputationOf(queryClassification(d, throws))

\* the status of a query: Ok when the contract has answered
queryStatus(throws) ==
  IF ~configured THEN NotInitializedMsg
  ELSE IF throws THEN NetworkMsg
  ELSE Ok

\* a caller looks an identifier up
Lookup(d, throws) ==
  /\ lastCall.fn \notin {"listAllDomains", "getDomainReputation"}
  /\ reputation' = getDomainReputation(d, throws)
  /\ lastCall' = [fn |-> "getDomainReputation", domain |-> d,
                  status |-> queryStatus(throws)]
  /\ UNCHANGED <<ledgerVars, blockTimestamp, clientVars, uiVars, listing, engineVars>>

\* the caller has used the answer
LookupDone ==
  /\ lastCall.fn = "getDomainReputation"
  /\ reputation' = Null
  /\ lastCall' = NoCall
  /\ UNCHANGED <<ledgerVars, blockTimestamp, clientVars, uiVars, listing, engineVars>>

\* a call the ledger accepts, or a later block, between two lookups
LookupLedgerStep ==
  /\ lastCall.fn # "getDomainReputation"
  /\ ListLedgerStep

LookupNext ==
  \/ LookupLedgerStep
  \/ \E d \in Emails, throws \in BOOLEAN : Lookup(d, throws)
  \/ LookupDone

LookupSpec == ClientInit /\ [][LookupNext]_vars

\* C14: a lookup returns the unknown object (exists false, consensus
\* unknown, score 50, no votes, no reports) exactly when the query failed or
\* the ledger holds no record of the identifier; for a record it returns
\* exists true with score 10 and one spam vote for spam, score 90 and one ham
\* vote for ham, and total_reports = spam_votes + ham_votes = 1
C14_LookupSentinel ==
  [][lastCall'.fn = "getDomainReputation" =>
       LET d == lastCall'.domain
           found == lastCall'.status = Ok /\ domains'[d].exists
       IN  /\ (reputation' = UnknownReputation) <=> ~found
           /\ found =>
                /\ reputation'.exists
                /\ reputation'.reputation_score =
                     (IF domains'[d].isSpam THEN 10 ELSE 90)
                /\ reputation'.consensus =
                     (IF domains'[d].isSpam THEN "spam" ELSE "ham")
                /\ reputation'.spam_votes = (IF domains'[d].isSpam THEN 1 ELSE 0)
                /\ reputation'.ham_votes = (IF domains'[d].isSpam THEN 0 ELSE 1)
                /\ reputation'.total_reports = 1
                /\ reputation'.total_reports =
                     reputation'.spam_votes + reputation'.ham_votes]_vars

\* a lookup of an identifier stored as spam has answered
C14_Witness ==
  /\ lastCall.fn = "getDomainReputation"
  /\ lastCall.status = Ok
  /\ domains[lastCall.domain].exists
  /\ domains[lastCall.domain].isSpam
  /\ reputation.exists
  /\ reputation.reputation_score = 10

(***************************************************************************)
(* The risk fusion engine (assess).  Scores are counted in thousandths,    *)
(* weights in hundredths, and a risk in units of 1/100000.                 *)
(***************************************************************************)
ScoreOne == 1000          \* the score 1.0
WeightOne == 100          \* the weight 1.0
RiskOne == WeightOne * ScoreOne
NeutralScore == 500       \* the placeholder 0.5 of a skipped language model
\* variant: a threshold of one half
MinConfidenceThreshold_half == RiskOne \div 2
MinConfidenceThreshold == 80000    \* MIN_CONFIDENCE_THRESHOLD, 0.8 by default
SpamRisk == 50000         \* a write-back says spam above the risk 0.5
SafeBelow == 30000        \* labels: safe below 0.3
PhishingFrom == 60000     \* labels: phishing from 0.6

\* scores the collaborators return (0.02, 0.5 and 0.75 are those of the
\* reference scenarios; 0.5 is also the neutral score put for a failed one)
ContentScores == {0, 20, ScoreOne}
UrlScores == {0, 500, ScoreOne}
LlmScores == {0, NeutralScore, 750, ScoreOne}

\* variant: the lookup key is a link domain of the email
senderIdentifier_linkDomain(sender) == "b"

\* step 1: the sender identifier is the normalised sender address
senderIdentifier(sender) == toLowerCase(sender)

\* variant: a lookup that found nothing counts as a hit
ledgerHitOf_always(view) == TRUE

\* step 2: ledgerHit = exists
ledgerHitOf(view) == view.exists

\* variant: a ledger hit skips the language model also when forced fresh
skipsLlm_onHit(ledgerHit, forceFresh) == ledgerHit

\* step 4: the language model is skipped on a hit that is not forced fresh
skipsLlm(ledgerHit, forceFresh) == ledgerHit /\ ~forceFresh

\* variant: two policies only, a hit always takes the fast-path weights
weightsOf_twoBranches(ledgerHit, forceFresh) ==
  IF ledgerHit
    THEN [content |-> 10, url |-> 10, llm |-> 10, ledger |-> 70]
    ELSE [content |-> 30, url |-> 20, llm |-> 50, ledger |-> 0]

\* variant: a forced fresh assessment keeps the ledger weight of the fast path
weightsOf_heavyLedger(ledgerHit, forceFresh) ==
  IF ledgerHit /\ ~forceFresh
    THEN [content |-> 10, url |-> 10, llm |-> 10, ledger |-> 70]
  ELSE IF ledgerHit
    THEN [content |-> 20, url |-> 20, llm |-> 40, ledger |-> 70]
  ELSE [content |-> 30, url |-> 20, llm |-> 50, ledger |-> 0]

\* step 5: the three weight policies
weightsOf(ledgerHit, forceFresh) ==
  IF ledgerHit /\ ~forceFresh
    THEN [content |-> 10, url |-> 10, llm |-> 10, ledger |-> 70]
  ELSE IF ledgerHit
    THEN [content |-> 20, url |-> 20, llm |-> 40, ledger |-> 20]
  ELSE [content |-> 30, url |-> 20, llm |-> 50, ledger |-> 0]

\* step 6: the ledger component is 1.0 for spam, 0.0 for ham and for no record
ledgerScore(view) ==
  IF view.exists /\ view.consensus = "spam" THEN ScoreOne ELSE 0

\* the weighted sum of step 7 before it is clamped
weightedSum(w, c) ==
  w.content * c.content + w.url * c.url + w.llm * c.llm + w.ledger * c.ledger

\* step 7: finalRisk, clamped to [0,1]
finalRiskOf(w, c) ==
  LET x == weightedSum(w, c)
  IN  IF x < 0 THEN 0 ELSE IF x > RiskOne THEN RiskOne ELSE x

\* variant: suspicious reaches up to 0.7
labelOf_wide(risk) ==
  IF risk < SafeBelow THEN "safe"
  ELSE IF risk < 70000 THEN "suspicious"
  ELSE "phishing"

\* step 8: the label
labelOf(risk) ==
  IF risk < SafeBelow THEN "safe"
  ELSE IF risk < PhishingFrom THEN "suspicious"
  ELSE "phishing"

\* step 8: the confidence is the risk for phishing, 1 - risk otherwise
confidenceOf(risk) ==
  IF labelOf(risk) = "phishing" THEN risk ELSE RiskOne - risk

\* variant: a confident fast-path result is written back too
shouldAutoReport_always(flag, confidence, ledgerHit, forceFresh) ==
  flag /\ confidence >= MinConfidenceThreshold

\* step 9: the condition of the auto-report
shouldAutoReport(flag, confidence, ledgerHit, forceFresh) ==
  /\ flag
  /\ confidence >= MinConfidenceThreshold
  /\ (~ledgerHit \/ forceFresh)

AutoReason == "auto"

\* assess(emailRecord, forceFresh) is called
AssessStart(sender, forceFresh) ==
  /\ epc \in {"idle", "done"}
  /\ epc' = "lookup"
  /\ request' = [sender |-> sender, forceFresh |-> forceFresh]
  /\ assessment' = [NoAssessment EXCEPT !.forcedFresh = forceFresh]
  /\ llmCalls' = 0
  /\ writeBacks' = <<>>
  /\ reputation' = Null
  /\ lastCall' = NoCall
  /\ UNCHANGED <<ledgerVars, blockTimestamp, clientVars, uiVars, listing, autoReport>>

\* step 2: the lookup of the sender identifier returns (a lookup that fails
\* or times out returns what the client returns for a failed query)
AssessLookup(throws) ==
  /\ epc = "lookup"
  /\ reputation' = getDomainReputation(senderIdentifier(request.sender), throws)
  /\ assessment' = [assessment EXCEPT !.ledgerHit = ledgerHitOf(reputation')]
  /\ epc' = "classifiers"
  /\ lastCall' = [fn |-> "getDomainReputation",
                  domain |-> senderIdentifier(request.sender),
                  status |-> queryStatus(throws)]
  /\ UNCHANGED <<ledgerVars, blockTimestamp, clientVars, uiVars, listing, autoReport,
                 request, llmCalls, writeBacks>>

\* step 3: the content and the URL classifier return their scores
AssessClassifiers(content, url) ==
  /\ epc = "classifiers"
  /\ assessment' = [assessment EXCEPT !.components.content = content,
                                      !.components.url = url]
  /\ epc' = "llm"
  /\ lastCall' = NoCall
  /\ UNCHANGED <<ledgerVars, blockTimestamp, clientVars, uiVars, listing, reputation,
                 autoReport, request, llmCalls, writeBacks>>

\* step 4: the language model is skipped, or it is called and returns score
AssessLlm(score) ==
  /\ epc = "llm"
  /\ IF skipsLlm(assessment.ledgerHit, request.forceFresh)
       THEN /\ assessment' = [assessment EXCEPT !.components.llm = NeutralScore]
            /\ UNCHANGED llmCalls
       ELSE /\ assessment' = [assessment EXCEPT !.components.llm = score]
            /\ llmCalls' = llmCalls + 1
  /\ epc' = "fuse"
  /\ lastCall' = NoCall
  /\ UNCHANGED <<ledgerVars, blockTimestamp, clientVars, uiVars, listing, reputation,
                 autoReport, request, writeBacks>>

\* steps 5 to 9: weights, ledger component, finalRisk, label, confidence,
\* and the write-back request handed to the ledger client
AssessFinish ==
  /\ epc = "fuse"
  /\ LET w == weightsOf(assessment.ledgerHit, request.forceFresh)
         c == [assessment.components EXCEPT !.ledger = ledgerScore(reputation)]
         risk == finalRiskOf(w, c)
     IN  /\ assessment' = [assessment EXCEPT !.weights = w,
                                             !.components = c,
                                             !.finalRisk = risk,
                                             !.label = labelOf(risk),
                                             !.confidence = confidenceOf(risk)]
         /\ writeBacks' =
              IF shouldAutoReport(autoReport, confidenceOf(risk),
                                  assessment.ledgerHit, request.forceFresh)
                THEN Append(writeBacks,
                            [domain |-> senderIdentifier(request.sender),
                             isSpam |-> risk > SpamRisk,
                             reason |-> AutoReason])
                ELSE writeBacks
  /\ epc' = "done"
  /\ lastCall' = NoCall
  /\ UNCHANGED <<ledgerVars, blockTimestamp, clientVars, uiVars, listing, reputation,
                 autoReport, request, llmCalls>>

\* a write the ledger accepts before the engine assesses
EngineLedgerStep ==
  /\ epc = "idle"
  /\ Len(events) < MaxLedgerWrites
  /\ \E d \in Emails, p \in Payloads :
       /\ classifyOutcome(Wallet, d) = Ok
       /\ classifyDomain(Wallet, d, p.isSpam, p.reason)

EngineInit ==
  /\ InitLedger
  /\ InitClient
  /\ listing = <<>>
  /\ reputation = Null
  /\ autoReport \in BOOLEAN
  /\ EngineIdle
  /\ InitUi

EngineNext ==
  \/ EngineLedgerStep
  \/ \E sender \in Emails, forceFresh \in BOOLEAN : AssessStart(sender, forceFresh)
  \/ \E throws \in BOOLEAN : AssessLookup(throws)
  \/ \E content \in ContentScores, url \in UrlScores :
       AssessClassifiers(content, url)
  \/ \E score \in LlmScores : AssessLlm(score)
  \/ AssessFinish

EngineSpec == EngineInit /\ [][EngineNext]_vars

\* C15: the weights are a function of (ledgerHit, forceFresh) with three
\* branches: hit and not forced (0.10, 0.10, 0.10, 0.70), hit and forced
\* (0.20, 0.20, 0.40, 0.20), no hit (0.30, 0.20, 0.50, 0.00); the weights
\* of every assessment are those of its branch and sum to 1.0
C15_WeightPolicy ==
  epc = "done" =>
    LET w == assessment.weights
        hit == assessment.ledgerHit
        forced == assessment.forcedFresh
    IN  /\ (hit /\ ~forced) =>
             w = [content |-> 10, url |-> 10, llm |-> 10, ledger |-> 70]
        /\ (hit /\ forced) =>
             w = [content |-> 20, url |-> 20, llm |-> 40, ledger |-> 20]
        /\ ~hit => w = [content |-> 30, url |-> 20, llm |-> 50, ledger |-> 0]
        /\ w.content + w.url + w.llm + w.ledger = WeightOne

\* a forced fresh assessment of a sender with a record is complete
C15_Witness ==
  /\ epc = "done"
  /\ assessment.ledgerHit
  /\ assessment.forcedFresh
  /\ assessment.weights.ledger = 20

C18_LookupFailsOpen ==
  /\ [][( /\ epc = "lookup"
          /\ lastCall'.fn = "getDomainReputation"
          /\ lastCall'.status # Ok ) =>
          /\ ~assessment'.ledgerHit
          /\ epc' = "classifiers"]_vars
  /\ [][(epc \in {"classifiers", "llm", "fuse"}) =>
          /\ assessment'.ledgerHit = assessment.ledgerHit
          /\ epc' \in {"llm", "fuse", "done"}]_vars
  /\ []((epc \in {"fuse", "done"} /\ ~assessment.ledgerHit) => llmCalls = 1)
  /\ []((epc = "done" /\ ~assessment.ledgerHit) =>
          assessment.weights =
            [content |-> 30, url |-> 20, llm |-> 50, ledger |-> 0])

\* the sender has a record, the lookup failed, and the assess has finished
\* with the language model called and the ledger weight 0
C18_Witness ==
  /\ epc = "done"
  /\ domains[senderIdentifier(request.sender)].exists
  /\ ~assessment.ledgerHit
  /\ llmCalls = 1
  /\ assessment.weights.ledger = 0

\* C19: the weighted sum of the components lies within [0,1] and is the
\* finalRisk of the assessment; the ledger component is 1 for a record
\* stored as spam, 0 for one stored as ham, and adds nothing without a record
C19_FinalRiskInUnitInterval ==
  epc = "done" =>
    LET w == assessment.weights
        c == assessment.components
        record == domains[senderIdentifier(request.sender)]
    IN  /\ weightedSum(w, c) >= 0
        /\ weightedSum(w, c) <= RiskOne
        /\ assessment.finalRisk = weightedSum(w, c)
        /\ \A x \in {c.content, c.url, c.llm, c.ledger} : x \in 0..ScoreOne
        /\ assessment.ledgerHit =>
             c.ledger = (IF record.isSpam THEN ScoreOne ELSE 0)
        /\ ~assessment.ledgerHit => w.ledger * c.ledger = 0

\* every component of a forced fresh assessment of a spam sender is 1.0
C19_Witness ==
  /\ epc = "done"
  /\ assessment.ledgerHit
  /\ assessment.forcedFresh
  /\ assessment.components =
       [content |-> ScoreOne, url |-> ScoreOne, llm |-> ScoreOne,
        ledger |-> ScoreOne]
  /\ assessment.finalRisk = RiskOne

MaxClicks == 2

\* obj.key || fallback, for values whose falsy form is the fallback itself
orElse(obj, key, fallback) ==
  IF key \in DOMAIN obj THEN obj[key] ELSE fallback

\* the open email as getGmailMessageData extracts it
getGmailMessageData ==
  [sender |-> "a", subject |-> "s", body |-> "b", urls |-> <<>>]

\* final_risk values of a response, in 1/100000: both sides of each threshold
RiskSamples ==
  {0, SafeBelow - 1, SafeBelow, PhishingFrom - 1, PhishingFrom, RiskOne}

\* ledger weights a response may report, in hundredths
BlockchainWeights == {0, 60}

\* the JSON the endpoint may answer to a request: the analysis was forced
\* fresh when the request asked for it
AnalyzeResponses(body) ==
  [final_risk : RiskSamples,
   from_previous_incident : BOOLEAN,
   force_llm_used : {orElse(body, "force_llm", FALSE)},
   blockchain_weight : BlockchainWeights]

\* const reqBody = {sender, subject, body, urls, privacy_minimized}
reqBodyOf(payload, sendFullBody) ==
  [sender |-> payload.sender,
   subject |-> payload.subject,
   body |-> IF sendFullBody THEN payload.body ELSE "",
   urls |-> orElse(payload, "urls", <<>>),
   privacy_minimized |-> ~sendFullBody]

\* variant: the worker calls everything from 0.6 upwards suspicious
backgroundLabel_noPhishing(final_risk) ==
  IF final_risk < SafeBelow THEN "Safe" ELSE "Suspicious"

\* result.label of the worker
backgroundLabel(final_risk) ==
  IF final_risk < SafeBelow THEN "Safe"
  ELSE IF final_risk < PhishingFrom THEN "Suspicious"
  ELSE "Likely Phishing"

\* the result the worker builds from the response (the LLM's reason and
\* actions, which no step here reads, are left out)
resultOf(json) ==
  [final_risk |-> json.final_risk,
   label |-> backgroundLabel(json.final_risk)]

\* the result the callbacks of the page build when the analysis failed
errorResult == [final_risk |-> 0, label |-> "Error"]

\* riskClass of the overlay
riskClassOf(risk) ==
  IF risk >= PhishingFrom THEN "phish-danger"
  ELSE IF risk >= SafeBelow THEN "phish-suspicious"
  ELSE "phish-safe"

\* riskLabel of the overlay
riskLabelOf(risk) ==
  IF risk >= PhishingFrom THEN "Phishing"
  ELSE IF risk >= SafeBelow THEN "Suspicious"
  ELSE "Safe"

\* (x).toFixed(0) of x given in thousandths: the nearest integer
toFixed0(x) == (x + 500) \div 1000

\* the percentage printed after the label
percentOf(risk) ==
  IF riskClassOf(risk) = "phish-danger"
    THEN toFixed0(risk)
    ELSE toFixed0(RiskOne - risk)

\* class names of the elements of the overlay
overlayClasses == {"phish-header", "phish-title", "phish-content-scrollable"}

\* the style attribute of the block around the feedback buttons and of its
\* caption
feedbackStyles ==
  {"margin-top:16px;border-top:2px solid #e8f0fe;padding-top:12px;",
   "font-size:13px;color:#666;margin-bottom:8px;font-weight:600;"}

\* panel.querySelector(".feedback-buttons") ||
\* panel.querySelector('[style*="Help improve accuracy"]')?.parentElement
feedbackDivFound ==
  \/ "feedback-buttons" \in overlayClasses
  \/ "Help improve accuracy" \in feedbackStyles

\* the overlay that showOverlay(result) builds
showOverlay(shown) ==
  LET risk == orElse(shown, "final_risk", 0)
      blockchainAvailable == orElse(shown, "blockchain_weight", 0) > 0
      fromPreviousIncident == orElse(shown, "from_previous_incident", FALSE)
      forceLlmUsed == orElse(shown, "force_llm_used", FALSE)
  IN  [result |-> shown,
       riskClass |-> riskClassOf(risk),
       riskLabel |-> riskLabelOf(risk),
       percent |-> percentOf(risk),
       warning |-> blockchainAvailable /\ fromPreviousIncident,
       runLlm |-> fromPreviousIncident /\ ~forceLlmUsed,
       disabled |-> FALSE]

\* analyzeCurrentEmail: the Analyze button sends the email to the worker
analyzeCurrentEmail ==
  /\ xpc = "idle"
  /\ msg' = getGmailMessageData
  /\ xpc' = "message"
  /\ lastCall' = NoCall
  /\ UNCHANGED <<ledgerVars, blockTimestamp, clientVars, listing, reputation,
                 engineVars, exitCode, reqBody, data, response, panel,
                 inFlight>>

\* runFreshLlmAnalysis: the handler of the button "Run Fresh LLM Analysis";
\* the handler does not ask whether the overlay shows its button
runFreshLlmAnalysis ==
  /\ xpc = "idle"
  /\ msg' = [sender |-> getGmailMessageData.sender,
                 subject |-> getGmailMessageData.subject,
                 body |-> getGmailMessageData.body,
                 urls |-> getGmailMessageData.urls,
                 force_llm |-> TRUE]
  /\ xpc' = "message"
  /\ lastCall' = NoCall
  /\ UNCHANGED <<ledgerVars, blockTimestamp, clientVars, listing, reputation,
                 engineVars, exitCode, reqBody, data, response, panel,
                 inFlight>>

\* handleAnalyze up to the fetch: the request is built and sent
handleAnalyze(sendFullBody) ==
  /\ xpc = "message"
  /\ reqBody' = reqBodyOf(msg, sendFullBody)
  /\ xpc' = "fetch"
  /\ lastCall' = NoCall
  /\ UNCHANGED <<ledgerVars, blockTimestamp, clientVars, listing, reputation,
                 engineVars, exitCode, msg, data, response, panel,
                 inFlight>>

\* handleAnalyze after the fetch: the endpoint answered with json
handleAnalyzeOk(json) ==
  /\ xpc = "fetch"
  /\ data' = json
  /\ response' = [result |-> resultOf(json)]
  /\ xpc' = "reply"
  /\ lastCall' = NoCall
  /\ UNCHANGED <<ledgerVars, blockTimestamp, clientVars, listing, reputation,
                 engineVars, exitCode, msg, reqBody, panel, inFlight>>

\* handleAnalyze after the fetch: the fetch failed or resp.ok is false
handleAnalyzeFails ==
  /\ xpc = "fetch"
  /\ data' = Null
  /\ response' = [error |-> "Backend error"]
  /\ xpc' = "reply"
  /\ lastCall' = NoCall
  /\ UNCHANGED <<ledgerVars, blockTimestamp, clientVars, listing, reputation,
                 engineVars, exitCode, msg, reqBody, panel, inFlight>>

\* the callback of chrome.runtime.sendMessage in the page
sendMessageCallback ==
  /\ xpc = "reply"
  /\ panel' = IF "error" \in DOMAIN response
                THEN showOverlay(errorResult)
                ELSE showOverlay(response.result)
  /\ xpc' = "idle"
  /\ lastCall' = NoCall
  /\ UNCHANGED <<ledgerVars, blockTimestamp, clientVars, listing, reputation,
                 engineVars, exitCode, msg, reqBody, data, response,
                 inFlight>>

\* submitFeedback up to its fetch: a click on an enabled feedback button
submitFeedback(classification) ==
  /\ panel # Null
  /\ ~panel.disabled
  /\ inFlight < MaxClicks
  /\ panel' = [panel EXCEPT !.disabled = feedbackDivFound]
  /\ inFlight' = inFlight + 1
  /\ lastCall' = [fn |-> "submitFeedback", classification |-> classification]
  /\ UNCHANGED <<ledgerVars, blockTimestamp, clientVars, listing, reputation,
                 engineVars, exitCode, xpc, msg, reqBody, data, response>>

\* submitFeedback after its fetch: the report is answered or fails, and the
\* timer set then gives the buttons back
submitFeedbackSettled ==
  /\ inFlight > 0
  /\ inFlight' = inFlight - 1
  /\ panel' = IF panel = Null THEN Null ELSE [panel EXCEPT !.disabled = FALSE]
  /\ lastCall' = NoCall
  /\ UNCHANGED <<ledgerVars, blockTimestamp, clientVars, listing, reputation,
                 engineVars, exitCode, xpc, msg, reqBody, data, response>>

ExtensionNext ==
  \/ analyzeCurrentEmail
  \/ runFreshLlmAnalysis
  \/ \E sendFullBody \in BOOLEAN : handleAnalyze(sendFullBody)
  \/ \E json \in AnalyzeResponses(reqBody) : handleAnalyzeOk(json)
  \/ handleAnalyzeFails
  \/ sendMessageCallback
  \/ \E classification \in {"ham", "spam"} : submitFeedback(classification)
  \/ submitFeedbackSettled

ExtensionSpec == Init /\ [][ExtensionNext]_vars

(***************************************************************************)
(* Claims about the extension.                                             *)
(***************************************************************************)
\* the label of step 8 that a label of the extension stands for
categoryOf(label) ==
  CASE label = "Safe" -> "safe"
    [] label = "Suspicious" -> "suspicious"
    [] label \in {"Phishing", "Likely Phishing"} -> "phishing"
    [] OTHER -> "none"

C23_FreshRequestForced ==
  xpc = "fetch" =>
    (orElse(reqBody, "force_llm", FALSE) <=> orElse(msg, "force_llm", FALSE))

\* C24: when the response last shown reports a ledger hit that was not
\* forced fresh, the overlay has the warning "Based on Previous Incidents"
\* and the button "Run Fresh LLM Analysis"; in every other case the overlay
\* has no such button
C24_WarningAndButton ==
  (xpc = "idle" /\ panel # Null /\ data # Null) =>
    LET hit == data.from_previous_incident /\ ~data.force_llm_used
    IN  /\ hit => (panel.warning /\ panel.runLlm)
        /\ ~hit => ~panel.runLlm

\* C30: at most one feedback submission of the overlay is in flight
C30_OneFeedbackInFlight ==
  inFlight <= 1

(***************************************************************************)
(* Claims about the lookup key of the engine.                              *)
(***************************************************************************)
\* C22: the ledger hit, the weights and the final risk of a finished assess
\* are determined by the record of the normalized sender address, by whether
\* the lookup was answered, and by the email and its scores; the record of
\* no other identifier (such as a link domain) enters, so two ledgers that
\* agree on the sender's record give the same three values
C22_SenderOnlyKey ==
  epc = "done" =>
    \E answered \in BOOLEAN :
      LET record == domains[toLowerCase(request.sender)]
          hit == answered /\ record.exists
          score == IF hit /\ record.isSpam THEN ScoreOne ELSE 0
          w == weightsOf(hit, request.forceFresh)
      IN  /\ assessment.ledgerHit = hit
          /\ assessment.weights = w
          /\ assessment.components.ledger = score
          /\ assessment.finalRisk =
               finalRiskOf(w, [assessment.components EXCEPT !.ledger = score])

\* the sender has no record while another identifier is stored as spam, the
\* lookup was answered, and the assess finished without a ledger hit
C22_Witness ==
  /\ epc = "done"
  /\ configured
  /\ request.sender = "a"
  /\ ~domains["a"].exists
  /\ domains["b"].exists
  /\ domains["b"].isSpam
  /\ ~assessment.ledgerHit
  /\ assessment.weights.ledger = 0

(***************************************************************************)
(* The view functions of the contract.                                     *)
(***************************************************************************)
\* variant: the lightweight query reports every stored record as ham
isDomainKnown_flagOnly(d) ==
  LET record == domains[d]
  IN <<record.exists, FALSE>>

\* function isDomainKnown
isDomainKnown(d) ==
  LET record == domains[d]
  IN <<record.exists, record.isSpam>>

\* function getStats: totalSubmitters is not tracked and reported as 0
getStats == <<totalDomains, 0>>

\* variant: the view asks for a time strictly after the end of the cooldown
canUserSubmit_strict(user) ==
  LET nextTime == lastSubmissionTime[user] + submissionCooldown
  IN  <<blockTimestamp > nextTime, nextTime>>

\* function canUserSubmit: the checked addition reverts when it overflows
canUserSubmit(user) ==
  LET nextTime == lastSubmissionTime[user] + submissionCooldown
  IN  <<blockTimestamp >= nextTime, nextTime>>

\* the outcome of canUserSubmit
canUserSubmitOutcome(user) ==
  IF AddOverflows(lastSubmissionTime[user], submissionCooldown)
    THEN PanicMsg
    ELSE Ok

\* an eth_call of a view function returns
viewReturns(fn, arg, status, returned) ==
  /\ lastCall' = [fn |-> fn, arg |-> arg, status |-> status,
                  returned |-> returned]
  /\ UNCHANGED <<ledgerVars, blockTimestamp, clientVars, readVars>>

CallGetDomainClassification(d) ==
  viewReturns("getDomainClassification", d, Ok, getDomainClassification(d))

CallIsDomainKnown(d) ==
  viewReturns("isDomainKnown", d, Ok, isDomainKnown(d))

CallGetStats ==
  viewReturns("getStats", "", Ok, getStats)

CallCanUserSubmit(user) ==
  IF canUserSubmitOutcome(user) = Ok
    THEN viewReturns("canUserSubmit", user, Ok, canUserSubmit(user))
    ELSE viewReturns("canUserSubmit", user, PanicMsg, <<>>)

\* a call that changes the ledger, or a later block, between two reads
ViewLedgerStep ==
  \/ \E s \in Addrs, d \in Emails, p \in Payloads :
       /\ Len(events) < MaxLedgerWrites
       /\ classifyOutcome(s, d) = Ok
       /\ classifyDomain(s, d, p.isSpam, p.reason)
  \/ \E d \in Emails :
       /\ removeOutcome(Deployer, d) = Ok
       /\ removeDomain(Deployer, d)
  \/ \E c \in CooldownValues : updateSubmissionCooldown(Deployer, c)
  \/ Tick

ViewNext ==
  \/ ViewLedgerStep
  \/ \E d \in Emails : CallGetDomainClassification(d)
  \/ \E d \in Emails : CallIsDomainKnown(d)
  \/ CallGetStats
  \/ \E user \in Addrs : CallCanUserSubmit(user)

ViewSpec == Init /\ [][ViewNext]_vars

\* the names of the view functions
ViewFns ==
  {"getDomainClassification", "isDomainKnown", "getStats", "canUserSubmit"}

\* the step executes neither an accepted write nor an accepted removal
NoAcceptedWrite ==
  \A i \in Emails : ~AcceptedClassify(i) /\ ~AcceptedRemove(i)

\* C26: a call of getDomainClassification, isDomainKnown, getStats or
\* canUserSubmit changes no state of the ledger; a query returns the tuple of
\* the stored record, and no step other than an accepted write or removal
\* changes what a query of any identifier returns, so two queries without
\* such a step between them return the same; isDomainKnown returns the
\* first two components (exists, isSpam) of the query
C26_PureReads ==
  /\ [][lastCall'.fn \in ViewFns =>
          UNCHANGED <<ledgerVars, blockTimestamp>>]_vars
  /\ [][lastCall'.fn = "getDomainClassification" =>
          \A i \in Emails :
            lastCall'.arg = i =>
              /\ lastCall'.returned = getDomainClassification(i)
              /\ lastCall'.returned = getDomainClassification(i)']_vars
  /\ [][NoAcceptedWrite =>
          \A i \in Emails :
            getDomainClassification(i)' = getDomainClassification(i)]_vars
  /\ [][( /\ lastCall.fn = "getDomainClassification"
          /\ lastCall'.fn = "getDomainClassification"
          /\ lastCall'.arg = lastCall.arg ) =>
          lastCall'.returned = lastCall.returned]_vars
  /\ [][lastCall'.fn = "isDomainKnown" =>
          lastCall'.returned =
            <<getDomainClassification(lastCall'.arg)[1],
              getDomainClassification(lastCall'.arg)[2]>>]_vars

\* a lightweight query has returned (TRUE, TRUE) for a record stored as spam
C26_Witness ==
  /\ lastCall.fn = "isDomainKnown"
  /\ lastCall.returned = <<TRUE, TRUE>>
  /\ getDomainClassification(lastCall.arg)[2]
  /\ totalDomains = 1

(***************************************************************************)
(* Frame and event properties of the ledger, checked under Spec.           *)
(***************************************************************************)
\* C27: an accepted classify(i, ...) by submitter s sets the gate of s to
\* the current time and leaves the gate of every other submitter, the record
\* of every other identifier, the cooldown, the owner and the time unchanged
C27_ClassifyFrame ==
  [][\A i \in Emails, s \in Addrs :
       (AcceptedClassify(i) /\ lastCall'.sender = s) =>
         /\ lastSubmissionTime'[s] = blockTimestamp
         /\ \A a \in Addrs \ {s} :
              lastSubmissionTime'[a] = lastSubmissionTime[a]
         /\ \A j \in Emails \ {i} : domains'[j] = domains[j]
         /\ submissionCooldown' = submissionCooldown
         /\ owner' = owner
         /\ blockTimestamp' = blockTimestamp]_vars

\* the second account wrote an identifier at time 2 while the deployer's
\* gate stands at time 1 and another identifier has a record
C27_Witness ==
  /\ lastCall.fn = "classifyDomain"
  /\ lastCall.status = Ok
  /\ lastCall.sender = "user"
  /\ lastSubmissionTime["user"] = 2
  /\ lastSubmissionTime[Deployer] = 1
  /\ \E j \in Emails \ {lastCall.domain} : domains[j].exists

\* C28: removeDomain(i), accepted or not, leaves the gate of every submitter
\* (the remover's too), the cooldown and the record of every identifier other
\* than i unchanged
C28_RemoveFrame ==
  [][\A i \in Emails :
       (lastCall'.fn = "removeDomain" /\ lastCall'.domain = i) =>
         /\ lastSubmissionTime' = lastSubmissionTime
         /\ submissionCooldown' = submissionCooldown
         /\ \A j \in Emails \ {i} : domains'[j] = domains[j]]_vars

\* the owner, whose own gate is set, removed one of two records
C28_Witness ==
  /\ lastCall.fn = "removeDomain"
  /\ lastCall.status = Ok
  /\ lastSubmissionTime[lastCall.sender] > 0
  /\ ~domains[lastCall.domain].exists
  /\ \E j \in Emails \ {lastCall.domain} : domains[j].exists

\* the event the step appends to the log
emitted == events'[Len(events')]

\* the step appends exactly one event, named as claimed: DomainClassified
\* when identifier i has no live record before the write, DomainUpdated
\* otherwise
emitsOne(i) ==
  /\ Len(events') = Len(events) + 1
  /\ SubSeq(events', 1, Len(events)) = events
  /\ emitted.name =
       IF domains[i].exists THEN "DomainUpdated" ELSE "DomainClassified"
  /\ emitted.domain = i

\* a step that is no accepted classify leaves the log as it is
emitsNoneOtherwise ==
  (\A i \in Emails : ~AcceptedClassify(i)) => events' = events

\* C29 as stated: every accepted classify emits exactly one event, created
\* for an identifier without live record and updated otherwise, and each
\* event carries the identifier, the new classification, the caller and the
\* timestamp; a rejected call emits none
C29_Original ==
  [][/\ \A i \in Emails :
          AcceptedClassify(i) =>
            /\ emitsOne(i)
            /\ "timestamp" \in DOMAIN emitted
            /\ emitted.timestamp = blockTimestamp
            /\ IF emitted.name = "DomainClassified"
                 THEN /\ emitted.isSpam = lastCall'.isSpam
                      /\ emitted.reporter = lastCall'.sender
                 ELSE /\ emitted.newClassification = lastCall'.isSpam
                      /\ emitted.updater = lastCall'.sender
     /\ emitsNoneOtherwise]_vars

\* C29 amended: every accepted classify emits exactly one event, created
\* for an identifier without live record and updated otherwise; the created
\* event carries the identifier, the new classification, the caller and the
\* timestamp, the updated event carries the identifier, the old and the new
\* classification and the caller but no timestamp; nothing else emits
C29_Amended ==
  [][/\ \A i \in Emails :
          AcceptedClassify(i) =>
            /\ emitsOne(i)
            /\ IF emitted.name = "DomainClassified"
                 THEN /\ emitted.isSpam = lastCall'.isSpam
                      /\ emitted.reporter = lastCall'.sender
                      /\ emitted.timestamp = blockTimestamp
                 ELSE /\ emitted.newClassification = lastCall'.isSpam
                      /\ emitted.oldClassification = domains[i].isSpam
                      /\ emitted.updater = lastCall'.sender
                      /\ "timestamp" \notin DOMAIN emitted
     /\ emitsNoneOtherwise]_vars

\* a live record was rewritten with the other classification, which emitted
\* DomainUpdated after the DomainClassified of the first write
C29_Witness ==
  /\ lastCall.fn = "classifyDomain"
  /\ lastCall.status = Ok
  /\ Len(events) = 2
  /\ events[1].name = "DomainClassified"
  /\ events[2].name = "DomainUpdated"
  /\ events[2].domain = events[1].domain
  /\ events[2].oldClassification = events[1].isSpam
  /\ events[2].newClassification # events[1].isSpam
  /\ events[2].updater = lastCall.sender

(***************************************************************************)
(* The command line of interact.js: node interact.js classify ...          *)
(***************************************************************************)
\* maxRetries = 3, the default the command line leaves in place
DefaultMaxRetries == 3

\* process.argv.slice(2) of the runs considered
ArgvSamples ==
  {<<"classify", "a">>, <<"classify", "a", "true", "r">>} \cup
  {<<"classify", d, flag>> : d \in Emails, flag \in {"true", "false"}}

\* variant: the command ignores what classifyDomain returns
exitCodeOf_ignored(classifyResult) == 0

\* the exit status after contract.classifyDomain has returned
exitCodeOf(classifyResult) ==
  IF ~classifyResult.success THEN 1 ELSE 0

\* case "classify": with fewer than three arguments the usage is printed
\* and the process exits with 1; otherwise classifyDomain is called with
\* args[1], args[2] === "true" and args[3] || ""
CliClassify(argv) ==
  /\ pc = "idle" \/ exitCode # Null
  /\ pc \in {"idle", "done"}
  /\ Len(events) + DefaultMaxRetries <= MaxAttemptsBound
  /\ lastCall' = NoCall
  /\ IF Len(argv) < 3
       THEN /\ exitCode' = [status |-> 1]
            /\ pc' = "idle"
            /\ UNCHANGED <<args, attempt, waits, calls, lastError, result>>
       ELSE /\ exitCode' = Null
            /\ args' = [domain |-> argv[2], isSpam |-> argv[3] = "true",
                        reason |-> IF Len(argv) > 3 THEN argv[4] ELSE "",
                        maxRetries |-> DefaultMaxRetries]
            /\ attempt' = 1
            /\ waits' = <<>>
            /\ calls' = 0
            /\ lastError' = ""
            /\ result' = [success |-> FALSE, error |-> ""]
            /\ pc' = "attempt"
  /\ UNCHANGED <<ledgerVars, blockTimestamp, configured, listing, reputation,
                 engineVars, xpc, msg, reqBody, data, response, panel,
                 inFlight>>

\* the command ends after classifyDomain has returned
CliExit ==
  /\ pc = "done"
  /\ exitCode = Null
  /\ exitCode' = [status |-> exitCodeOf(result)]
  /\ lastCall' = NoCall
  /\ UNCHANGED <<ledgerVars, blockTimestamp, clientVars, listing, reputation,
                 engineVars, xpc, msg, reqBody, data, response, panel,
                 inFlight>>

CliNext ==
  \/ \E argv \in ArgvSamples : CliClassify(argv)
  \/ ClientSend
  \/ ClientSendFails
  \/ ClientMined
  \/ ClientMinedWaitFails
  \/ ClientDelayDone
  \/ CliExit
  \/ \E c \in CooldownValues : updateSubmissionCooldown(Deployer, c)
  \/ Tick

CliSpec == ClientInit /\ [][CliNext]_vars

\* C25: the classify command exits with 1 exactly when classifyDomain
\* returned success = false, and with 0 otherwise; classifyDomain returns
\* success exactly in a step in which an attempt got its transaction
\* confirmed, and it returns failure only after each of the maxRetries
\* attempts has ended in the catch block, with the error of the last one
C25_FailureSurfaced ==
  /\ []((pc = "done" /\ exitCode # Null) =>
          /\ exitCode.status = 1 <=> ~result.success
          /\ exitCode.status = 0 <=> result.success)
  /\ []((pc = "done" /\ ~result.success) =>
          /\ attempt = args.maxRetries
          /\ Len(waits) = args.maxRetries - 1
          /\ result.error = lastError
          /\ lastError # "")
  /\ []((pc = "done" /\ result.success) =>
          /\ attempt <= args.maxRetries
          /\ Len(waits) = attempt - 1
          /\ result.error = "")
  /\ [][(result'.success /\ ~result.success) =>
          /\ pc = "pending"
          /\ pc' = "done"
          /\ lastCall'.fn = "classifyDomain"
          /\ lastCall'.status = Ok
          /\ lastCall'.domain = args.domain]_vars
  /\ [][(pc = "pending" /\ lastError' = "" /\ lastCall'.fn = "classifyDomain")
          => (result'.success /\ pc' = "done")]_vars

\* the command has exited with 1 after three attempts were all rejected
C25_Witness ==
  /\ exitCode = [status |-> 1]
  /\ pc = "done"
  /\ ~result.success
  /\ attempt = DefaultMaxRetries
  /\ calls = DefaultMaxRetries
  /\ Len(waits) = 2

(***************************************************************************)
(* Invariants of the counter and of the gate, checked under Spec.          *)
(***************************************************************************)
\* the identifiers with a live record
liveRecords == {i \in Emails : domains[i].exists}

\* C31: after any calls of classifyDomain, removeDomain and
\* updateSubmissionCooldown by any accounts, totalDomains is the number of
\* identifiers whose record exists; so it never falls below 0 and an
\* accepted removal finds it above 0
C31_CountMatches ==
  /\ totalDomains = Cardinality(liveRecords)
  /\ totalDomains >= 0
  /\ totalDomains <= UintMax

\* one of two records has been removed: the counter went 1, 2, 1
C31_Witness ==
  /\ lastCall.fn = "removeDomain"
  /\ lastCall.status = Ok
  /\ Len(events) = 2
  /\ events[1].domain # events[2].domain
  /\ totalDomains = 1
  /\ Cardinality(liveRecords) = 1

(***************************************************************************)
(* Claims about the gate and its view, checked under ViewSpec and Spec.    *)
(***************************************************************************)
\* the identifiers a write may carry
NonEmpty == Emails \ {""}

\* C32: canUserSubmit(s) returns canSubmit = true exactly when a
\* classifyDomain of a non-empty identifier sent by s in the same block
\* would be accepted, and whenever it returns, its second value is
\* lastSubmissionTime[s] + submissionCooldown
C32_ViewAgreesWithGate ==
  /\ [](\A s \in Addrs, d \in NonEmpty :
          (canUserSubmitOutcome(s) = Ok /\ canUserSubmit(s)[1])
            <=> classifyOutcome(s, d) = Ok)
  /\ [][\A s \in Addrs :
          (lastCall'.fn = "canUserSubmit" /\ lastCall'.arg = s) =>
            /\ \A d \in NonEmpty :
                 (lastCall'.status = Ok /\ lastCall'.returned[1])
                   <=> classifyOutcome(s, d) = Ok
            /\ lastCall'.status = Ok =>
                 lastCall'.returned[2] =
                   lastSubmissionTime[s] + submissionCooldown]_vars

\* the view has answered FALSE and the end of the cooldown for an account
\* that wrote at time 1 under a cooldown of MaxCooldown
C32_Witness ==
  /\ lastCall.fn = "canUserSubmit"
  /\ lastCall.status = Ok
  /\ lastCall.returned = <<FALSE, 1 + MaxCooldown>>
  /\ lastSubmissionTime[lastCall.arg] = 1
  /\ classifyOutcome(lastCall.arg, "a") = CooldownMsg

\* no write sent by account s has been accepted so far
neverWrote(s) ==
  \A k \in 1..Len(events) :
    IF events[k].name = "DomainClassified"
      THEN events[k].reporter # s
      ELSE events[k].updater # s

\* C33: a classifyDomain of a non-empty identifier sent by an account that
\* never had an accepted write is accepted, whatever submissionCooldown and
\* block.timestamp are; in particular it is not rejected for the cooldown
C33_FirstWriteAccepted ==
  [][\A s \in Addrs :
       ( /\ lastCall'.fn = "classifyDomain"
         /\ lastCall'.sender = s
         /\ lastCall'.domain # ""
         /\ neverWrote(s) )
       => lastCall'.status = Ok]_vars

\* C40: for every cooldown the owner has set and every gate, canUserSubmit
\* returns a result and classifyDomain is accepted or rejected for the
\* cooldown (or for an empty identifier): the sum of lastSubmissionTime and
\* submissionCooldown never fails
C40_GateArithmeticTotal ==
  \A s \in Addrs :
    /\ canUserSubmitOutcome(s) = Ok
    /\ \A d \in Emails : classifyOutcome(s, d) \in {Ok, CooldownMsg, EmptyMsg}

(***************************************************************************)
(* One call of the client's classifyDomain on a ledger nobody else writes. *)
(***************************************************************************)
OneCallNext ==
  \/ \E d \in Emails, p \in Payloads, m \in 1..MaxAttemptsBound :
       /\ pc = "idle"
       /\ ClientStart(d, p.isSpam, p.reason, m)
  \/ ClientSend
  \/ ClientSendFails
  \/ ClientMined
  \/ ClientMinedWaitFails
  \/ ClientDelayDone
  \/ \E c \in CooldownValues : updateSubmissionCooldown(Deployer, c)
  \/ Tick

OneCallSpec == ClientInit /\ [][OneCallNext]_vars

\* C34: one call of classifyDomain causes at most one accepted write; the
\* log is empty when the only call starts and nobody else writes, so its
\* length is the number of accepted writes of the call
C34_AtMostOneWrite ==
  Len(events) <= 1

\* the classification a lookup reports for a record stored with flag isSpam
consensusOf(isSpam) == IF isSpam THEN "spam" ELSE "ham"

\* C35: classifyDomain returns success only in the step that confirms its
\* transaction: a lookup of the identifier right after the return finds the
\* record with the submitted classification and reason, written by the
\* wallet; and what a lookup of any identifier returns changes only in a
\* step that executes an accepted write of that identifier, so the record
\* stays visible after the return until a later write replaces it
C35_SuccessAfterConfirmation ==
  /\ [][(result'.success /\ ~result.success) =>
          LET view == getDomainReputation(args.domain, FALSE)'
          IN  /\ view.exists
              /\ view.consensus = consensusOf(args.isSpam)
              /\ view.reason = args.reason
              /\ view.reporter = Wallet
              /\ view.timestamp = blockTimestamp]_vars
  /\ [][\A i \in Emails :
          ~AcceptedClassify(i) =>
            getDomainReputation(i, FALSE)' = getDomainReputation(i, FALSE)]_vars
  /\ [][(pc' = "done" /\ result'.success) =>
          /\ configured'
          /\ getDomainReputation(args.domain, FALSE)'.exists]_vars

\* the call has returned success on its second attempt and a lookup of the
\* identifier reports the submitted classification
C35_Witness ==
  /\ pc = "done"
  /\ result.success
  /\ attempt = 2
  /\ getDomainReputation(args.domain, FALSE).exists
  /\ getDomainReputation(args.domain, FALSE).consensus = consensusOf(args.isSpam)

\* C36: every identifier in a printed listing has a live record in the
\* ledger at the time of the listing, so an identifier the owner removed and
\* nobody classified again is not listed
C36_ListedAreLive ==
  (lastCall.fn = "listAllDomains" /\ lastCall.status = Ok) =>
    \A k \in 1..Len(listing) : domains[listing[k].domain].exists

\* two identifiers that differ only in the case of a letter: two keys of the
\* mapping domains, whose keys are compared byte by byte
MixedCase == {"a", "A"}

\* the state after the constructor, the identifiers in use being MixedCase
MixedCaseInit ==
  /\ domains = [d \in MixedCase |-> DomainRecord]
  /\ lastSubmissionTime = [a \in Addrs |-> 0]
  /\ owner = Deployer
  /\ submissionCooldown = 0
  /\ totalDomains = 0
  /\ events = <<>>
  /\ blockTimestamp = 1
  /\ lastCall = NoCall
  /\ InitClientIdle
  /\ InitRead

\* accepted writes of the two identifiers, later blocks, and listings in
\* which every transaction is fetched and decoded
MixedCaseNext ==
  \/ /\ lastCall.fn # "listAllDomains"
     /\ \E s \in Addrs, d \in MixedCase, p \in Payloads :
          /\ classifyOutcome(s, d) = Ok
          /\ classifyDomain(s, d, p.isSpam, p.reason)
  \/ /\ lastCall.fn # "listAllDomains"
     /\ Tick
  \/ \E limit \in 0..MaxLimit : ListAll(limit, {})
  \/ ListExit

MixedCaseSpec == MixedCaseInit /\ [][MixedCaseNext]_vars

\* the identifiers that have a record in the ledger
liveKeys == {i \in DOMAIN domains : domains[i].exists}

\* C37: a listing whose limit is at least the number of live records has
\* exactly one entry for every identifier with a live record, so two
\* identifiers share an entry only if they are the same key of the ledger
C37_CompleteAndKeyedAsLedger ==
  (/\ lastCall.fn = "listAllDomains"
   /\ lastCall.status = Ok
   /\ lastCall.limit >= Cardinality(liveKeys)) =>
    \A i \in liveKeys :
      Cardinality({k \in 1..Len(listing) : listing[k].domain = i}) = 1

C39_ErrorNotShownSafe ==
  (panel # Null /\ panel.result.label = "Error") => panel.riskLabel # "Safe"
====
